---- MODULE Spec2Model ----
(***************************************************************************)
(* Model of the tool-invocation client and its resilient connection layer  *)
(* of cw-agents:                                                           *)
(*   src/src/infrastructure/mcp_pool.py        CircuitBreaker,             *)
(*                                             MCPConnection,              *)
(*                                             MCPConnectionPool           *)
(*   src/src/infrastructure/fastmcp_client.py  FastMCPClient               *)
(* Three state machines share the module: the breaker driven directly by   *)
(* its three methods (BreakerSpec), the pool with its callers (PoolSpec,   *)
(* PoolFairSpec) and the streaming client (ClientSpec).                    *)
(***************************************************************************)
EXTENDS Integers, Sequences, FiniteSets, TLC

\* ------------------------------------------------------------------ bounds
MaxThreshold == 3
MaxSuccessThreshold == 2
MaxOpenTimeout == 2
MaxTime == 4
MaxCount == 4
MaxConnections == 2
MaxCalls == 3
MaxPoolThreshold == 2
PoolOpenTimeout == 1
MaxInitializations == 2
MaxLifeThreshold == 1
MaxOps == 3
MaxFaults == 1

\* --------------------------------------------------------------- variables
VARIABLES
    circuit_breaker,   \* the CircuitBreaker object (its fields and configuration)
    now,               \* datetime.now(), in whole time units
    last_call,         \* the latest breaker method called: op, state before, time, return
    fail_run,          \* call_failed() calls in a row since a Closed breaker (-1: none)
    half_open_run      \* call_succeeded() calls in a row since HalfOpen (-1: none)

VARIABLES
    max_connections,        \* MCPConnectionPool.max_connections
    closing,                \* MCPConnectionPool.close(): the index in connections of the
                            \* connection whose aclose() it awaits (0: no close() under way)
    mcp_connection,         \* the MCPConnection objects created so far, by identity
    connections,            \* MCPConnectionPool.connections (identities)
    available_connections,  \* MCPConnectionPool.available_connections (asyncio.Queue)
    metrics,                \* MCPConnectionPool.metrics
    calls,                  \* pool operations started so far
    pc,                     \* where each caller task stands
    conn,                   \* each caller's local conn (0: none)
    attempt,                \* the retry wrapper's attempt number of each caller
    use_circuit_breaker,    \* each caller's use_circuit_breaker argument
    result                  \* how each caller's latest operation ended

VARIABLES
    client,             \* the FastMCPClient object: its fields
    sessions,           \* aiohttp.ClientSession pairs created so far (numbered from 1)
    closed,             \* the ClientSessions that have been closed
    streams,            \* the event streams the server has opened (numbered from 1)
    inbox,              \* the requests POSTed to the server and not yet answered
    listener_created,   \* listener tasks created and not yet started
    listeners,          \* running listener tasks per stream they read
    task,               \* the caller tasks: position, locals, latest outcome
    ops,                \* call_tool() and close() calls made so far
    sent,               \* history: the tools/call messages built, in order
    faults,             \* stream failures, repeated and junk events so far
    \* SimpleExecutor
    executor,           \* the execute_skill() calls: position, inputs, payload
    \* locals of FastMCPClient.connect and FastMCPClient.call_tool
    raw_session_id,     \* the session_id query value of the endpoint event
    session_id,         \* self.session_id as stored from it
    tool_response,      \* the response _send_message returned to call_tool
    returned            \* what call_tool returned or raised for it

clientVars == <<client, sessions, closed, streams, inbox, listener_created,
                listeners, task, ops, sent, faults>>

breakerVars == <<circuit_breaker, now>>
breakerGhosts == <<last_call, fail_run, half_open_run>>
poolVars == <<max_connections, closing, mcp_connection, connections, available_connections,
              metrics, calls, pc, conn, attempt, use_circuit_breaker, result>>

executorVars == <<executor>>

valueVars == <<raw_session_id, session_id, tool_response, returned>>

vars == <<breakerVars, breakerGhosts, poolVars, clientVars, executorVars,
          valueVars>>

\* the tasks that use the pool concurrently
Callers == {"t1", "t2"}

\* ---------------------------------------------------------- CircuitBreaker
CLOSED == "closed"
OPEN == "open"
HALF_OPEN == "half_open"

\* last_failure_time: Optional[datetime] = None
NoTime == -1

CircuitBreaker(failure_threshold, timeout, success_threshold) ==
    [ failure_threshold |-> failure_threshold,
      timeout |-> timeout,
      success_threshold |-> success_threshold,
      failure_count |-> 0,
      success_count |-> 0,
      last_failure_time |-> NoTime,
      state |-> CLOSED ]

\* A call_succeeded() that leaves failure_count as it is.
call_succeeded_keeps_count(b) ==
    IF b.state = HALF_OPEN
    THEN LET b2 == [b EXCEPT !.success_count = @ + 1] IN
         IF b2.success_count >= b2.success_threshold
         THEN [b2 EXCEPT !.state = CLOSED, !.success_count = 0]
         ELSE b2
    ELSE b

\* A call_succeeded() that closes the breaker whatever its state.
call_succeeded_closes(b) ==
    [b EXCEPT !.failure_count = 0, !.success_count = 0, !.state = CLOSED]

\* call_succeeded()
call_succeeded(b) ==
    LET b1 == [b EXCEPT !.failure_count = 0] IN
    IF b1.state = HALF_OPEN
    THEN LET b2 == [b1 EXCEPT !.success_count = @ + 1] IN
         IF b2.success_count >= b2.success_threshold
         THEN [b2 EXCEPT !.state = CLOSED, !.success_count = 0]
         ELSE b2
    ELSE b1

\* A call_failed() that does not record the time of the failure.
call_failed_forgets_time(b, t) ==
    LET b1 == [b EXCEPT !.failure_count = @ + 1, !.success_count = 0] IN
    IF b1.failure_count >= b1.failure_threshold
    THEN [b1 EXCEPT !.state = OPEN]
    ELSE b1

\* A call_failed() that leaves success_count as it is.
call_failed_keeps_successes(b, t) ==
    LET b1 == [b EXCEPT !.failure_count = @ + 1, !.last_failure_time = t] IN
    IF b1.failure_count >= b1.failure_threshold
    THEN [b1 EXCEPT !.state = OPEN]
    ELSE b1

\* A breaker that opens one failure late (> instead of >=).
call_failed_late(b, t) ==
    LET b1 == [b EXCEPT !.failure_count = @ + 1,
                        !.last_failure_time = t,
                        !.success_count = 0] IN
    IF b1.failure_count > b1.failure_threshold
    THEN [b1 EXCEPT !.state = OPEN]
    ELSE b1

call_failed(b, t) ==
    LET b1 == [b EXCEPT !.failure_count = @ + 1,
                        !.last_failure_time = t,
                        !.success_count = 0] IN
    IF b1.failure_count >= b1.failure_threshold
    THEN [b1 EXCEPT !.state = OPEN]
    ELSE b1

\* A breaker that leaves Open at the first can_attempt(), whatever the time.
can_attempt_at_once(b, t) ==
    IF b.state = OPEN
    THEN [cb |-> [b EXCEPT !.state = HALF_OPEN], ret |-> TRUE]
    ELSE [cb |-> b, ret |-> TRUE]

\* A breaker that leaves Open one time unit late (> instead of >=).
can_attempt_late(b, t) ==
    IF b.state = CLOSED
    THEN [cb |-> b, ret |-> TRUE]
    ELSE IF b.state = OPEN
    THEN IF b.last_failure_time # NoTime /\ t - b.last_failure_time > b.timeout
         THEN [cb |-> [b EXCEPT !.state = HALF_OPEN], ret |-> TRUE]
         ELSE [cb |-> b, ret |-> FALSE]
    ELSE [cb |-> b, ret |-> TRUE]

\* can_attempt returns a value and may change the state: cb is the breaker
\* after the call, ret the value returned.
can_attempt(b, t) ==
    IF b.state = CLOSED
    THEN [cb |-> b, ret |-> TRUE]
    ELSE IF b.state = OPEN
    THEN IF b.last_failure_time # NoTime /\ t - b.last_failure_time >= b.timeout
         THEN [cb |-> [b EXCEPT !.state = HALF_OPEN], ret |-> TRUE]
         ELSE [cb |-> b, ret |-> FALSE]
    ELSE [cb |-> b, ret |-> TRUE]

get_state(b) == b.state

\* ----------------------------------------------------------- MCPConnection
\* MCPConnection.__init__: client = None, is_active = False
MCPConnection == [client |-> FALSE, is_active |-> FALSE]

\* MCPConnection.connect, when httpx.AsyncClient(...) is constructed
connect(cn) ==
    IF ~cn.client THEN [client |-> TRUE, is_active |-> TRUE] ELSE cn

\* MCPConnection.close, once client.aclose() has returned
MCPConnection_close(cn) == [client |-> FALSE, is_active |-> FALSE]

\* CircuitBreaker.__init__: success_threshold: int = 2
DefaultSuccessThreshold == 2

\* the retry wrapper: stop_after_attempt(3)
MaxAttempts == 3

\* How one POST of MCPConnection.call_tool can end: a well-formed response
\* with a result, a well-formed response with an error field, httpx.HTTPError
\* (raise_for_status or the transport), asyncio.TimeoutError.
AttemptOutcomes == {"ok", "tool_error", "http_error", "timeout"}

\* A wrapper that retries after every exception.
Retried_any(kind) == kind # "ok"

\* retry_if_exception_type((httpx.HTTPError, asyncio.TimeoutError))
Retried(kind) == kind \in {"http_error", "timeout"}

\* ------------------------------------------------------- MCPConnectionPool
NoMetrics ==
    [ total_calls |-> 0, successful_calls |-> 0, failed_calls |-> 0,
      circuit_breaker_rejections |-> 0 ]

\* initialize(): max_connections new MCPConnection objects, each appended to
\* connections and put on the queue. The objects are named by their creation
\* order, first + 1 .. first + n.
initialize(first, n) ==
    [ objects |-> [i \in 1..n |-> MCPConnection],
      entries |-> [i \in 1..n |-> first + i] ]

\* MCPConnectionPool.__init__: no connection, an empty queue, counters at 0
MCPConnectionPool(n) ==
    /\ max_connections = n
    /\ closing = 0
    /\ mcp_connection = << >>
    /\ connections = << >>
    /\ available_connections = << >>
    /\ metrics = NoMetrics
    /\ calls = 0
    /\ pc = [c \in Callers |-> "idle"]
    /\ conn = [c \in Callers |-> 0]
    /\ attempt = [c \in Callers |-> 0]
    /\ use_circuit_breaker = [c \in Callers |-> TRUE]
    /\ result = [c \in Callers |-> "none"]

\* get_metrics()
get_metrics(m, b, cs, q) ==
    [ total_calls |-> m.total_calls,
      successful_calls |-> m.successful_calls,
      failed_calls |-> m.failed_calls,
      circuit_breaker_rejections |-> m.circuit_breaker_rejections,
      circuit_breaker_state |-> get_state(b),
      active_connections |-> Len(cs),
      available_connections |-> Len(q) ]

\* The state after MCPConnectionPool.__init__ and one initialize()
PoolInitialized(n) ==
    /\ max_connections = n
    /\ closing = 0
    /\ mcp_connection = initialize(0, n).objects
    /\ connections = initialize(0, n).entries
    /\ available_connections = initialize(0, n).entries
    /\ metrics = NoMetrics
    /\ calls = 0
    /\ pc = [c \in Callers |-> "idle"]
    /\ conn = [c \in Callers |-> 0]
    /\ attempt = [c \in Callers |-> 0]
    /\ use_circuit_breaker = [c \in Callers |-> TRUE]
    /\ result = [c \in Callers |-> "none"]

\* ----------------------------------------------------------- FastMCPClient
NoEvent == [id |-> 0, kind |-> "none", body |-> "none"]

\* asyncio.Future(): not done
Future == [done |-> FALSE, value |-> NoEvent]

NoResult == [kind |-> "none", id |-> 0, body |-> "none"]

IdleTask == [pc |-> "idle", msg_id |-> 0, sess |-> 0, stream |-> 0, result |-> NoResult]

\* FastMCPClient.__init__, and the world around a new client: no session, no
\* stream, no request, no listener, every caller idle.
FastMCPClient ==
    /\ client = [ sse_session |-> 0, post_session |-> 0, endpoint |-> 0,
                  session_id |-> 0, message_id |-> 0, sse_response |-> 0,
                  pending_responses |-> << >> ]
    /\ sessions = 0
    /\ closed = {}
    /\ streams = << >>
    /\ inbox = {}
    /\ listener_created = 0
    /\ listeners = [s \in 1..MaxOps |-> 0]
    /\ task = [c \in Callers |-> IdleTask]
    /\ ops = 0
    /\ sent = << >>
    /\ faults = 0

\* ---------------------------------------------------------- SimpleExecutor
NoPayload == [success |-> FALSE, skill |-> "none", result |-> "none", error |-> "none"]

IdleExecution == [pc |-> "idle", skill |-> "none", tool_params |-> "none",
                  outcome |-> "none", raised |-> FALSE, payload |-> NoPayload]

\* SimpleExecutor.__init__, and no execute_skill() under way
SimpleExecutor == executor = [c \in Callers |-> IdleExecution]

\* ------------------------------------------ values the client works on
\* A text is the sequence of its characters. self.session_id = None:
NoSessionId == <<"None">>

UuidHexLen == 32

\* f"{raw[:8]}-{raw[8:12]}-{raw[12:16]}-{raw[16:20]}-{raw[20:]}"
hyphenated(raw) ==
    SubSeq(raw, 1, 8) \o <<"-">> \o SubSeq(raw, 9, 12) \o <<"-">>
        \o SubSeq(raw, 13, 16) \o <<"-">> \o SubSeq(raw, 17, 20) \o <<"-">>
        \o SubSeq(raw, 21, Len(raw))

\* connect(), lines 68-71: what self.session_id becomes for raw_session_id
stored_session_id(raw) ==
    IF Len(raw) = UuidHexLen /\ \A i \in 1..Len(raw) : raw[i] # "-"
    THEN hyphenated(raw)
    ELSE raw

\* A Python value as json.loads() builds it: its type, the text of a scalar,
\* the keys of a dict in order, the items of a dict or a list.
PyValue(type, atom, keys, items) ==
    [type |-> type, atom |-> atom, keys |-> keys, items |-> items]

PyStr(s) == PyValue("str", s, << >>, << >>)
PyInt(s) == PyValue("int", s, << >>, << >>)
PyNone == PyValue("NoneType", "None", << >>, << >>)
PyList(items) == PyValue("list", "", << >>, items)
PyDict(keys, items) == PyValue("dict", "", keys, items)

\* isinstance(v, type)
isinstance(v, type) == v.type = type

\* `key in d`
Has(d, key) == \E i \in 1..Len(d.keys) : d.keys[i] = key

\* d.get(key, default)
Get(d, key, default) ==
    IF Has(d, key)
    THEN d.items[CHOOSE i \in 1..Len(d.keys) : d.keys[i] = key]
    ELSE default

Returns(value) == [raised |-> "none", value |-> value]
Raises(exception) == [raised |-> exception, value |-> PyNone]
NotReturned == [raised |-> "pending", value |-> PyNone]

\* json.loads(text) for the texts of Texts: the value a JSON document
\* denotes; anything else is no JSON document.
json_loads(text) ==
    CASE text = "{\"status\": \"in_transit\"}" ->
            Returns(PyDict(<<"status">>, <<PyStr("in_transit")>>))
      [] text = "{}" -> Returns(PyDict(<< >>, << >>))
      [] text = "[]" -> Returns(PyList(<< >>))
      [] text = "5" -> Returns(PyInt("5"))
      [] text = "null" -> Returns(PyNone)
      [] text = "\"delivered\"" -> Returns(PyStr("delivered"))
      [] OTHER -> Raises("JSONDecodeError")

\* call_tool lines 211-234 on the response of _send_message: the error
\* check and the extraction of the result. json.loads() of something that is
\* no str raises TypeError, which the except clause does not name.
extract_result(resp) ==
    IF Has(resp, "error") THEN Raises("Exception")
    ELSE
    LET res == Get(resp, "result", PyDict(<< >>, << >>)) IN
    IF isinstance(res, "dict")
    THEN IF Has(res, "content")
         THEN LET content == Get(res, "content", PyNone) IN
              IF isinstance(content, "list") /\ Len(content.items) > 0
              THEN LET first_item == content.items[1] IN
                   IF isinstance(first_item, "dict")
                   THEN LET text == Get(first_item, "text", PyStr("{}")) IN
                        IF ~isinstance(text, "str") THEN Raises("TypeError")
                        ELSE IF json_loads(text.atom).raised = "none"
                        THEN json_loads(text.atom)
                        ELSE Returns(PyDict(<<"text">>, <<text>>))
                   ELSE Returns(first_item)
              ELSE Returns(content)
         ELSE Returns(res)
    ELSE Returns(res)

\* No endpoint event read and no call_tool() response handled.
NoValues ==
    /\ raw_session_id = << >>
    /\ session_id = NoSessionId
    /\ tool_response = PyNone
    /\ returned = NotReturned

\* ------------------------------------------- the breaker driven directly
NoCall == [op |-> "none", pre |-> CLOSED, at |-> 0, ret |-> TRUE]

BreakerInit ==
    /\ \E ft \in 1..MaxThreshold, to \in 1..MaxOpenTimeout,
          st \in 1..MaxSuccessThreshold :
          circuit_breaker = CircuitBreaker(ft, to, st)
    /\ now = 0
    /\ last_call = NoCall
    /\ fail_run = 0
    /\ half_open_run = -1
    /\ PoolInitialized(1)
    /\ FastMCPClient
    /\ SimpleExecutor
    /\ NoValues

Bump(n) == IF n < 0 THEN n ELSE IF n < MaxCount THEN n + 1 ELSE n

CallSucceeded ==
    /\ circuit_breaker' = call_succeeded(circuit_breaker)
    /\ last_call' = [op |-> "call_succeeded", pre |-> circuit_breaker.state,
                     at |-> now, ret |-> TRUE]
    /\ fail_run' = IF circuit_breaker'.state = CLOSED THEN 0 ELSE -1
    /\ half_open_run' = Bump(half_open_run)
    /\ UNCHANGED <<now, poolVars, clientVars, executorVars, valueVars>>

CallFailed ==
    /\ circuit_breaker.failure_count < MaxCount
    /\ circuit_breaker' = call_failed(circuit_breaker, now)
    /\ last_call' = [op |-> "call_failed", pre |-> circuit_breaker.state,
                     at |-> now, ret |-> TRUE]
    /\ fail_run' = Bump(fail_run)
    /\ half_open_run' = IF circuit_breaker'.state = HALF_OPEN THEN 0 ELSE -1
    /\ UNCHANGED <<now, poolVars, clientVars, executorVars, valueVars>>

CanAttempt ==
    /\ LET r == can_attempt(circuit_breaker, now) IN
       /\ circuit_breaker' = r.cb
       /\ last_call' = [op |-> "can_attempt", pre |-> circuit_breaker.state,
                        at |-> now, ret |-> r.ret]
       /\ half_open_run' = IF circuit_breaker.state = OPEN /\ r.cb.state = HALF_OPEN
                           THEN 0 ELSE half_open_run
    /\ UNCHANGED <<now, fail_run, poolVars, clientVars, executorVars, valueVars>>

Tick ==
    /\ now < MaxTime
    /\ now' = now + 1
    /\ UNCHANGED <<circuit_breaker, breakerGhosts, poolVars, clientVars, executorVars, valueVars>>

BreakerNext ==
    \/ CallSucceeded
    \/ CallFailed
    \/ CanAttempt
    \/ Tick

BreakerSpec == BreakerInit /\ [][BreakerNext]_vars

\* ------------------------------------------------------------ claims C6-C8

\* C6: starting from a Closed breaker, after failure_threshold consecutive
\* call_failed() calls (no call_succeeded() between them) the state is Open,
\* and can_attempt() returns false, leaving the state Open, whenever less than
\* the open timeout has elapsed since the last failure.
C6_OpensAfterThreshold ==
    /\ (last_call.op = "call_failed"
        /\ fail_run >= circuit_breaker.failure_threshold)
           => circuit_breaker.state = OPEN
    /\ (last_call.op = "can_attempt" /\ last_call.pre = OPEN
        /\ fail_run >= circuit_breaker.failure_threshold
        /\ last_call.at - circuit_breaker.last_failure_time < circuit_breaker.timeout)
           => (last_call.ret = FALSE /\ circuit_breaker.state = OPEN)

C6_Witness ==
    /\ circuit_breaker.failure_threshold >= 2
    /\ fail_run = circuit_breaker.failure_threshold
    /\ last_call.op = "can_attempt"
    /\ last_call.pre = OPEN
    /\ last_call.at > circuit_breaker.last_failure_time
    /\ last_call.ret = FALSE
    /\ circuit_breaker.state = OPEN

\* C7: when the breaker is Open and at least the open timeout has elapsed
\* since the last recorded failure, can_attempt() returns true and moves the
\* state to HalfOpen; from HalfOpen, success_threshold consecutive
\* call_succeeded() calls move the state to Closed with success_count 0.
C7_HalfOpenRecovery ==
    /\ (last_call.op = "can_attempt" /\ last_call.pre = OPEN
        /\ last_call.at - circuit_breaker.last_failure_time >= circuit_breaker.timeout)
           => (last_call.ret = TRUE /\ circuit_breaker.state = HALF_OPEN)
    /\ (last_call.op = "call_succeeded"
        /\ half_open_run >= circuit_breaker.success_threshold)
           => (circuit_breaker.state = CLOSED /\ circuit_breaker.success_count = 0)

C7_Witness ==
    /\ circuit_breaker.success_threshold >= 2
    /\ last_call.op = "call_succeeded"
    /\ last_call.pre = HALF_OPEN
    /\ half_open_run = circuit_breaker.success_threshold
    /\ circuit_breaker.state = CLOSED

\* C8: in every reachable HalfOpen state, a single call_failed() moves the
\* state to Open and resets success_count to 0.
C8_HalfOpenFailureReopens ==
    (last_call.op = "call_failed" /\ last_call.pre = HALF_OPEN)
        => (circuit_breaker.state = OPEN /\ circuit_breaker.success_count = 0)

\* The state changes a breaker may make
Transitions ==
    {<<CLOSED, OPEN>>, <<OPEN, HALF_OPEN>>, <<HALF_OPEN, OPEN>>, <<HALF_OPEN, CLOSED>>}

\* C21: over every sequence of call_succeeded, call_failed and can_attempt
\* the state, Closed at first, changes only Closed->Open, Open->HalfOpen,
\* HalfOpen->Open and HalfOpen->Closed: never Closed->HalfOpen, never
\* Open->Closed.
C21_OnlyLegalTransitions ==
    /\ circuit_breaker.state = CLOSED
    /\ [][\/ circuit_breaker'.state = circuit_breaker.state
          \/ <<circuit_breaker.state, circuit_breaker'.state>> \in Transitions]_vars

\* A failure has just taken a HalfOpen breaker back to Open, after it had
\* been Closed, Open and HalfOpen.
C21_Witness ==
    /\ last_call.op = "call_failed"
    /\ last_call.pre = HALF_OPEN
    /\ circuit_breaker.state = OPEN

\* C31: call_succeeded() sets failure_count to 0 in every state, and a
\* Closed breaker opens only by a call_failed() that completes
\* failure_threshold failures in a row, with no success between them.
C31_OpensOnConsecutiveFailuresOnly ==
    [][/\ last_call'.op = "call_succeeded" => circuit_breaker'.failure_count = 0
       /\ (circuit_breaker.state = CLOSED /\ circuit_breaker'.state # CLOSED) =>
             /\ circuit_breaker'.state = OPEN
             /\ last_call'.op = "call_failed"
             /\ fail_run' >= circuit_breaker.failure_threshold]_vars

\* A failure was recorded, a success has reset the count, and the breaker,
\* which needs two failures or more, is Closed with the count at 0.
C31_Witness ==
    /\ circuit_breaker.failure_threshold >= 2
    /\ last_call.op = "call_succeeded"
    /\ last_call.pre = CLOSED
    /\ circuit_breaker.last_failure_time # NoTime
    /\ circuit_breaker.state = CLOSED
    /\ circuit_breaker.failure_count = 0
    /\ fail_run = 0

\* C32: an Open breaker leaves Open only inside a can_attempt() that
\* returns true, to HalfOpen, and only when the open timeout has elapsed
\* since last_failure_time, which every call_failed() (also one recorded
\* while Open) sets to its own time and nothing else changes; time and
\* call_succeeded() leave Open alone, and a can_attempt() that returns false
\* changes no field.
C32_OpenLeftOnlyByCanAttempt ==
    [][/\ (circuit_breaker.state = OPEN /\ circuit_breaker'.state # OPEN) =>
             /\ circuit_breaker'.state = HALF_OPEN
             /\ last_call'.op = "can_attempt"
             /\ last_call'.ret
             /\ now' = now
             /\ circuit_breaker.last_failure_time # NoTime
             /\ now - circuit_breaker.last_failure_time >= circuit_breaker.timeout
             /\ circuit_breaker' = [circuit_breaker EXCEPT !.state = HALF_OPEN]
       /\ (last_call'.op = "call_failed" /\ last_call' # last_call) =>
             circuit_breaker'.last_failure_time = last_call'.at
       /\ circuit_breaker'.last_failure_time # circuit_breaker.last_failure_time =>
             last_call'.op = "call_failed" /\ last_call'.at = now
       /\ (last_call'.op = "can_attempt" /\ ~last_call'.ret) =>
             circuit_breaker' = circuit_breaker /\ circuit_breaker.state = OPEN]_vars

\* A failure recorded while Open restarted the wait, and the can_attempt()
\* that came a full timeout after it moved the breaker to HalfOpen.
C32_Witness ==
    /\ last_call.op = "can_attempt"
    /\ last_call.pre = OPEN
    /\ last_call.ret
    /\ circuit_breaker.state = HALF_OPEN
    /\ circuit_breaker.failure_count > circuit_breaker.failure_threshold
    /\ last_call.at - circuit_breaker.last_failure_time = circuit_breaker.timeout
    /\ circuit_breaker.timeout >= 2

\* C34: a Closed breaker has counted fewer failures than failure_threshold,
\* and an Open breaker has a last_failure_time.
C34_ClosedBelowThresholdOpenTimed ==
    /\ circuit_breaker.failure_threshold >= 1
    /\ circuit_breaker.state = CLOSED =>
          circuit_breaker.failure_count < circuit_breaker.failure_threshold
    /\ circuit_breaker.state = OPEN =>
          circuit_breaker.last_failure_time # NoTime

\* A Closed breaker one failure short of its threshold.
C34_Witness ==
    /\ circuit_breaker.state = CLOSED
    /\ last_call.op = "call_failed"
    /\ circuit_breaker.failure_count >= 1
    /\ circuit_breaker.failure_count = circuit_breaker.failure_threshold - 1

\* C35: success_count is at least 0 and below success_threshold, and it is
\* above 0 only while the breaker is HalfOpen.
C35_SuccessCountBounded ==
    /\ circuit_breaker.success_threshold >= 1
    /\ 0 <= circuit_breaker.success_count
    /\ circuit_breaker.success_count < circuit_breaker.success_threshold
    /\ circuit_breaker.success_count > 0 => circuit_breaker.state = HALF_OPEN

\* A HalfOpen breaker that has counted a success and needs another.
C35_Witness ==
    /\ circuit_breaker.state = HALF_OPEN
    /\ last_call.op = "call_succeeded"
    /\ circuit_breaker.success_count = 1
    /\ circuit_breaker.success_threshold = 2

\* ------------------------------------------------ the pool and its callers
\* The pool that get_mcp_pool() hands out: constructed, then initialize()d.
PoolInit ==
    /\ \E n \in 1..MaxConnections : PoolInitialized(n)
    /\ \E ft \in 1..MaxPoolThreshold :
          circuit_breaker = CircuitBreaker(ft, PoolOpenTimeout, DefaultSuccessThreshold)
    /\ now = 0
    /\ last_call = NoCall
    /\ fail_run = 0
    /\ half_open_run = -1
    /\ FastMCPClient
    /\ SimpleExecutor
    /\ NoValues

\* A get() that leaves the entry on the queue (a peek).
queue_get_peek(q) == [item |-> Head(q), rest |-> q]

\* asyncio.Queue.get on a non-empty queue: the oldest entry, removed.
queue_get(q) == [item |-> Head(q), rest |-> Tail(q)]

\* A put() that drops the entry.
queue_put_drop(q, k) == q

\* asyncio.Queue.put on an unbounded queue.
queue_put(q, k) == Append(q, k)

\* get_connection() once the queue holds an entry: the entry leaves the queue,
\* is connected if not active, and is returned. connects = FALSE: the lazy
\* conn.connect() raises, and the exception leaves get_connection().
get_connection(c, connects, then) ==
    /\ available_connections # <<>>
    /\ LET g == queue_get(available_connections)
           lazy == ~mcp_connection[g.item].is_active
       IN /\ available_connections' = g.rest
          /\ (connects \/ lazy)
          /\ IF connects
             THEN /\ conn' = [conn EXCEPT ![c] = g.item]
                  /\ mcp_connection' =
                        [mcp_connection EXCEPT ![g.item] = IF lazy THEN connect(@) ELSE @]
                  /\ pc' = [pc EXCEPT ![c] = then]
                  /\ result' = [result EXCEPT ![c] = "none"]
             ELSE /\ pc' = [pc EXCEPT ![c] = "idle"]
                  /\ result' = [result EXCEPT ![c] = "connect_error"]
                  /\ UNCHANGED <<conn, mcp_connection>>

\* return_connection(conn)
return_connection(c) ==
    /\ available_connections' = queue_put(available_connections, conn[c])
    /\ conn' = [conn EXCEPT ![c] = 0]

\* A rejection that is also counted as a call.
rejected_counts_call(m) ==
    [m EXCEPT !.circuit_breaker_rejections = @ + 1, !.total_calls = @ + 1]

\* call_tool line 290: the metrics after a rejection by the breaker
rejected(m) == [m EXCEPT !.circuit_breaker_rejections = @ + 1]

\* MCPConnectionPool.call_tool up to its first suspension: the breaker check,
\* total_calls, and get_connection() (which returns at once when the queue
\* holds an entry and suspends the caller otherwise).
PoolCallTool(c) ==
    /\ pc[c] = "idle"
    /\ calls < MaxCalls
    /\ calls' = calls + 1
    /\ \E ucb \in BOOLEAN :
       LET r == can_attempt(circuit_breaker, now) IN
       /\ IF ucb /\ ~r.ret
          THEN /\ metrics' = rejected(metrics)
               /\ result' = [result EXCEPT ![c] = "circuit_open"]
               /\ circuit_breaker' = r.cb
               /\ UNCHANGED <<pc, conn, attempt, mcp_connection, available_connections,
                              use_circuit_breaker>>
          ELSE /\ circuit_breaker' = IF ucb THEN r.cb ELSE circuit_breaker
               /\ metrics' = [metrics EXCEPT !.total_calls = @ + 1]
               /\ IF available_connections # <<>>
                  THEN \E connects \in BOOLEAN : get_connection(c, connects, "post")
                  ELSE /\ pc' = [pc EXCEPT ![c] = "call_tool_get"]
                       /\ UNCHANGED <<conn, mcp_connection, available_connections, result>>
               /\ attempt' = [attempt EXCEPT ![c] = IF pc'[c] = "post" THEN 1 ELSE 0]
               /\ use_circuit_breaker' = [use_circuit_breaker EXCEPT ![c] = ucb]
    /\ UNCHANGED <<max_connections, closing, connections, now, breakerGhosts, executorVars, valueVars, clientVars>>

\* A caller suspended in call_tool's get_connection() gets an entry.
PoolCallToolGet(c) ==
    /\ pc[c] = "call_tool_get"
    /\ \E connects \in BOOLEAN : get_connection(c, connects, "post")
    /\ attempt' = [attempt EXCEPT ![c] = IF pc'[c] = "post" THEN 1 ELSE 0]
    /\ UNCHANGED <<max_connections, closing, connections, metrics, calls, use_circuit_breaker,
                   breakerVars, breakerGhosts, executorVars, valueVars, clientVars>>

\* A pool call that records one failure for each attempt the wrapper made.
recorded_per_attempt(b, ok, t) ==
    IF ok THEN call_succeeded(b)
    ELSE call_failed(call_failed(call_failed(b, t), t), t)

\* call_tool lines 301-302 and 309-310: what the pool tells the breaker at
\* the end of a call
recorded(b, ok, t) ==
    IF ok THEN call_succeeded(b) ELSE call_failed(b, t)

\* An end of call_tool that reports to the breaker whatever the caller asked.
call_tool_ends_always_records(c, ok, how) ==
    /\ metrics' = IF ok THEN [metrics EXCEPT !.successful_calls = @ + 1]
                        ELSE [metrics EXCEPT !.failed_calls = @ + 1]
    /\ circuit_breaker' = recorded(circuit_breaker, ok, now)
    /\ return_connection(c)
    /\ pc' = [pc EXCEPT ![c] = "idle"]
    /\ result' = [result EXCEPT ![c] = how]
    /\ attempt' = [attempt EXCEPT ![c] = 0]
    /\ use_circuit_breaker' = [use_circuit_breaker EXCEPT ![c] = TRUE]

\* The end of MCPConnectionPool.call_tool: metrics, breaker, and the finally
\* block's return_connection().
call_tool_ends(c, ok, how) ==
    /\ metrics' = IF ok THEN [metrics EXCEPT !.successful_calls = @ + 1]
                        ELSE [metrics EXCEPT !.failed_calls = @ + 1]
    /\ circuit_breaker' =
          IF ~use_circuit_breaker[c] THEN circuit_breaker
          ELSE recorded(circuit_breaker, ok, now)
    /\ return_connection(c)
    /\ pc' = [pc EXCEPT ![c] = "idle"]
    /\ result' = [result EXCEPT ![c] = how]
    /\ attempt' = [attempt EXCEPT ![c] = 0]
    /\ use_circuit_breaker' = [use_circuit_breaker EXCEPT ![c] = TRUE]

\* One POST of MCPConnection.call_tool ends. A transport error before the
\* last attempt is retried by the wrapper, which keeps the outcome of that
\* attempt (result holds it while the call goes on) and calls the method
\* again, which connects when the connection has no client; after the last attempt
\* the wrapper raises RetryError (reraise is not set). Every other exception,
\* the tool error included, leaves the wrapper at once and reaches the pool's
\* except.
PoolAttemptEnds(c) ==
    /\ pc[c] = "post"
    /\ \E kind \in AttemptOutcomes :
          IF kind = "ok"
          THEN call_tool_ends(c, TRUE, "ok") /\ UNCHANGED mcp_connection
          ELSE IF ~Retried(kind)
          THEN call_tool_ends(c, FALSE, kind) /\ UNCHANGED mcp_connection
          ELSE IF attempt[c] < MaxAttempts
          THEN /\ attempt' = [attempt EXCEPT ![c] = @ + 1]
               /\ result' = [result EXCEPT ![c] = kind]
               /\ mcp_connection' = [mcp_connection EXCEPT ![conn[c]] = connect(@)]
               /\ UNCHANGED <<metrics, circuit_breaker, available_connections, conn,
                              pc, use_circuit_breaker>>
          ELSE /\ call_tool_ends(c, FALSE, "retry_error")
               /\ UNCHANGED mcp_connection
    /\ UNCHANGED <<max_connections, closing, connections, calls,
                   now, breakerGhosts, executorVars, valueVars, clientVars>>

\* A caller that uses get_connection() / return_connection() itself.
PoolGetConnection(c) ==
    /\ pc[c] = "idle"
    /\ calls < MaxCalls
    /\ calls' = calls + 1
    /\ IF available_connections # <<>>
       THEN \E connects \in BOOLEAN : get_connection(c, connects, "borrowed")
       ELSE /\ pc' = [pc EXCEPT ![c] = "get_connection"]
            /\ UNCHANGED <<conn, mcp_connection, available_connections, result>>
    /\ UNCHANGED <<max_connections, closing, connections, metrics, attempt,
                   use_circuit_breaker, breakerVars, breakerGhosts, executorVars, valueVars, clientVars>>

PoolGetConnectionWakes(c) ==
    /\ pc[c] = "get_connection"
    /\ \E connects \in BOOLEAN : get_connection(c, connects, "borrowed")
    /\ UNCHANGED <<max_connections, closing, connections, metrics, calls, attempt,
                   use_circuit_breaker, breakerVars, breakerGhosts, executorVars, valueVars, clientVars>>

PoolReturnConnection(c) ==
    /\ pc[c] = "borrowed"
    /\ return_connection(c)
    /\ pc' = [pc EXCEPT ![c] = "idle"]
    /\ result' = [result EXCEPT ![c] = "returned"]
    /\ UNCHANGED <<max_connections, closing, mcp_connection, connections, metrics,
                   calls, attempt, use_circuit_breaker, breakerVars, breakerGhosts, executorVars, valueVars, clientVars>>

\* Time passes. The pool reads the clock only in call_failed(), which stores
\* it, and in can_attempt() while Open, which compares it with the time the
\* latest failure stored; the breaker becomes Open only in call_failed(). So
\* the time that passes while the breaker is not Open is never observed.
PoolTick ==
    /\ circuit_breaker.state = OPEN
    /\ Tick

PoolNext ==
    \/ PoolTick
    \/ \E c \in Callers : PoolCallTool(c)
    \/ \E c \in Callers : PoolCallToolGet(c)
    \/ \E c \in Callers : PoolAttemptEnds(c)
    \/ \E c \in Callers : PoolGetConnection(c)
    \/ \E c \in Callers : PoolGetConnectionWakes(c)
    \/ \E c \in Callers : PoolReturnConnection(c)

PoolSpec == PoolInit /\ [][PoolNext]_vars

\* The event loop runs every task that can run: a caller whose awaited queue
\* entry, POST or sleep is ready resumes, and a borrower returns what it took.
PoolFairSpec ==
    /\ PoolSpec
    /\ \A c \in Callers :
          /\ WF_vars(PoolCallToolGet(c))
          /\ WF_vars(PoolAttemptEnds(c))
          /\ WF_vars(PoolGetConnectionWakes(c))
          /\ WF_vars(PoolReturnConnection(c))

Waiting(c) == pc[c] \in {"call_tool_get", "get_connection"}

\* ------------------------------------------------------- claims C5, C9, C10

\* C5: a MCPConnectionPool.call_tool that fails because the server returned a
\* well-formed response with an error field does not call call_failed():
\* failure_count and state are the same after the call as before it.
C5_ToolErrorSparesBreaker ==
    [][\A c \in Callers :
          (pc[c] = "post" /\ pc'[c] = "idle" /\ result'[c] = "tool_error")
             => /\ circuit_breaker'.failure_count = circuit_breaker.failure_count
                /\ circuit_breaker'.state = circuit_breaker.state]_vars

\* C11: a call_tool that asks for the breaker while can_attempt() is false
\* fails at once with the circuit-open error: circuit_breaker_rejections goes
\* up by exactly 1, total_calls, successful_calls and failed_calls stay, no
\* connection leaves the queue and no attempt is started. A call that goes on
\* while can_attempt() is false is one made with use_circuit_breaker false.
C11_RejectedAtOnce ==
    [][(calls' = calls + 1 /\ metrics' # metrics) =>
          LET denied == ~can_attempt(circuit_breaker, now).ret
              rejects == metrics'.circuit_breaker_rejections
                            # metrics.circuit_breaker_rejections
          IN /\ rejects =>
                   /\ denied
                   /\ metrics' = [metrics EXCEPT !.circuit_breaker_rejections = @ + 1]
                   /\ UNCHANGED <<available_connections, conn, mcp_connection, pc,
                                  attempt>>
                   /\ \E c \in Callers : pc[c] = "idle" /\ result'[c] = "circuit_open"
             /\ (denied /\ ~rejects) =>
                   \E c \in Callers :
                      /\ pc[c] = "idle"
                      /\ pc'[c] # "idle" \/ result'[c] = "connect_error"
                      /\ ~use_circuit_breaker'[c]]_vars

\* A call has been rejected while the breaker is Open; every connection is
\* still on the queue.
C11_Witness ==
    /\ circuit_breaker.state = OPEN
    /\ metrics.circuit_breaker_rejections = 1
    /\ \E c \in Callers : pc[c] = "idle" /\ result[c] = "circuit_open"
    /\ Len(available_connections) = max_connections

\* The connections of the pool that are neither on the queue nor held.
Lost ==
    {k \in 1..Len(connections) :
        /\ \A i \in 1..Len(available_connections) :
              available_connections[i] # connections[k]
        /\ \A c \in Callers : conn[c] # connections[k]}

\* C12: a call_tool that took a connection from the queue puts it back before
\* it returns or raises, whatever the outcome: no step of call_tool leaves a
\* connection that is neither on the queue nor held by a caller, and the step
\* that ends the call puts the connection the caller held on the queue.
C12_AlwaysReturned ==
    [][/\ ( \/ metrics'.total_calls # metrics.total_calls
            \/ \E c \in Callers :
                  pc[c] \in {"call_tool_get", "post"} /\ pc'[c] # pc[c] )
          => Lost' = Lost
       /\ \A c \in Callers :
             (pc[c] = "post" /\ pc'[c] = "idle")
                => /\ conn'[c] = 0
                   /\ available_connections'
                         = Append(available_connections, conn[c])]_vars

\* C13: MCPConnection.call_tool makes at most 3 attempts; an attempt after
\* the first follows an attempt that ended in a transport error (HTTPError or
\* TimeoutError), so a response with an error field is never followed by
\* another attempt.
C13_RetriesTransportOnly ==
    \A c \in Callers :
       /\ attempt[c] <= MaxAttempts
       /\ pc[c] = "post" =>
             /\ attempt[c] >= 1
             /\ attempt[c] = 1 => result[c] = "none"
             /\ attempt[c] > 1 => result[c] \in {"http_error", "timeout"}

\* One call is in its third attempt, another has ended with a tool error.
C13_Witness ==
    \E c, d \in Callers :
       /\ pc[c] = "post" /\ attempt[c] = MaxAttempts
       /\ pc[d] = "idle" /\ result[d] = "tool_error"

\* C14: when the third attempt also fails with a transport error, the error
\* that leaves MCPConnection.call_tool is that of the last attempt, of the
\* same kind and not wrapped.
C14_LastErrorUnchanged ==
    [][\A c \in Callers :
          ( /\ pc[c] = "post" /\ attempt[c] = MaxAttempts
            /\ pc'[c] = "idle"
            /\ result'[c] \notin {"ok", "tool_error"} )
          => result'[c] \in {"http_error", "timeout"}]_vars

\* C22: a pool call_tool with use_circuit_breaker that ends in a transport
\* or timeout failure records one call_failed(), in the step that ends the
\* call (so before the caller has the error) and not in the steps that retry;
\* one that succeeds records one call_succeeded().
C22_RecordedOncePerCall ==
    [][\A c \in Callers :
          (pc[c] = "post" /\ use_circuit_breaker[c]) =>
             /\ (pc'[c] = "post" /\ attempt'[c] = attempt[c] + 1)
                   => circuit_breaker' = circuit_breaker
             /\ (pc'[c] = "idle"
                 /\ result'[c] \in {"retry_error", "http_error", "timeout"})
                   => /\ circuit_breaker'.failure_count
                            = circuit_breaker.failure_count + 1
                      /\ circuit_breaker'.last_failure_time = now
                      /\ circuit_breaker'.success_count = 0
             /\ (pc'[c] = "idle" /\ result'[c] = "ok")
                   => /\ circuit_breaker'.failure_count = 0
                      /\ circuit_breaker.state = HALF_OPEN =>
                            \/ circuit_breaker'.success_count
                                  = circuit_breaker.success_count + 1
                            \/ /\ circuit_breaker'.state = CLOSED
                               /\ circuit_breaker.success_count + 1
                                     >= circuit_breaker.success_threshold
                      /\ circuit_breaker.state # HALF_OPEN =>
                            /\ circuit_breaker'.state = circuit_breaker.state
                            /\ circuit_breaker'.success_count
                                  = circuit_breaker.success_count]_vars

\* A call has ended after three failed attempts, and the breaker, whose
\* threshold is higher, has counted one failure.
C22_Witness ==
    /\ circuit_breaker.failure_threshold >= 2
    /\ circuit_breaker.failure_count = 1
    /\ metrics.failed_calls = 1
    /\ \E c \in Callers : pc[c] = "idle" /\ result[c] = "retry_error"

\* C9: at most max_connections connections are checked out, no connection is
\* held by two borrowers, and a connection a borrower holds is not on the
\* queue where another borrower could get it.
C9_PoolExclusive ==
    /\ Cardinality({c \in Callers : conn[c] # 0}) <= max_connections
    /\ \A c1, c2 \in Callers : (c1 # c2 /\ conn[c1] # 0) => conn[c1] # conn[c2]
    /\ \A c \in Callers : \A i \in 1..Len(available_connections) :
          conn[c] # 0 => available_connections[i] # conn[c]

C9_Witness ==
    /\ max_connections = 1
    /\ \E c1, c2 \in Callers :
          /\ conn[c1] # 0 /\ pc[c1] = "post"
          /\ Waiting(c2)

\* C10: if every borrower eventually returns its connection, every waiting
\* get_connection() eventually returns.
C10_WaitingGetReturns ==
    \A c \in Callers : Waiting(c) ~> ~Waiting(c)

\* The call_tool invocations that passed the breaker check and have not ended.
InFlight == {c \in Callers : pc[c] \in {"call_tool_get", "post"}}

\* C36: total_calls = successful_calls + failed_calls + the call_tool
\* invocations in flight (past the breaker check, not ended); a rejected call
\* is counted in circuit_breaker_rejections only.
C36_TotalCallsAccounted ==
    metrics.total_calls =
        metrics.successful_calls + metrics.failed_calls + Cardinality(InFlight)

\* The rejected calls are counted in circuit_breaker_rejections only.
C36_RejectionsApart ==
    [][metrics'.circuit_breaker_rejections # metrics.circuit_breaker_rejections =>
          /\ metrics' = rejected(metrics)
          /\ \E c \in Callers : pc[c] = "idle" /\ result'[c] = "circuit_open"]_vars

\* C37: a call_tool with use_circuit_breaker = false leaves the breaker as it
\* is when it starts (also when the breaker is Open and the call goes on to
\* borrow a connection) and when it ends, with a success or with a failure.
C37_BreakerBypassed ==
    [][\A c \in Callers :
        /\ ( /\ pc[c] = "idle"
             /\ \/ pc'[c] \in {"call_tool_get", "post"}
                \/ /\ result[c] # "connect_error" /\ result'[c] = "connect_error"
                   /\ metrics' # metrics
             /\ ~use_circuit_breaker'[c] )
           => /\ circuit_breaker' = circuit_breaker
              /\ metrics' = [metrics EXCEPT !.total_calls = @ + 1]
        /\ ( /\ pc[c] \in {"call_tool_get", "post"}
             /\ pc'[c] # pc[c] \/ attempt'[c] # attempt[c]
             /\ ~use_circuit_breaker[c] )
           => circuit_breaker' = circuit_breaker
        /\ ( /\ pc[c] = "post" /\ pc'[c] = "idle"
             /\ ~use_circuit_breaker[c] )
           => /\ metrics'.successful_calls + metrics'.failed_calls =
                    metrics.successful_calls + metrics.failed_calls + 1
              /\ (result'[c] = "ok") = (metrics'.successful_calls # metrics.successful_calls)
      ]_vars

\* A call without the breaker is at its POST while the breaker is Open and
\* would still reject a call that asks it.
C37_Witness ==
    \E c \in Callers :
        /\ pc[c] = "post" /\ ~use_circuit_breaker[c]
        /\ circuit_breaker.state = OPEN
        /\ ~can_attempt(circuit_breaker, now).ret

\* ------------------------------------ the pool from construction to close
\* A pool as MCPConnectionPool(...) constructs it: initialize() not yet called.
PoolLifeInit ==
    /\ \E n \in 1..MaxConnections : MCPConnectionPool(n)
    /\ \E ft \in 1..MaxLifeThreshold :
          circuit_breaker = CircuitBreaker(ft, PoolOpenTimeout, DefaultSuccessThreshold)
    /\ now = 0
    /\ last_call = NoCall
    /\ fail_run = 0
    /\ half_open_run = -1
    /\ FastMCPClient
    /\ SimpleExecutor
    /\ NoValues

\* initialize(): under the lock; neither the free lock nor the put() on the
\* unbounded queue suspends the caller.
PoolInitialize ==
    /\ closing = 0
    /\ Len(mcp_connection) < MaxInitializations * max_connections
    /\ LET made == initialize(Len(mcp_connection), max_connections) IN
       /\ mcp_connection' = mcp_connection \o made.objects
       /\ connections' = connections \o made.entries
       /\ available_connections' = available_connections \o made.entries
    /\ UNCHANGED <<max_connections, closing, metrics, calls, pc, conn, attempt,
                   use_circuit_breaker, result,
                   breakerVars, breakerGhosts, executorVars, valueVars, clientVars>>

\* The loop of close() from connections[i] on: the index of the first
\* connection that holds a client, whose aclose() the loop awaits; 0 when the
\* loop ends (MCPConnection.close does nothing on a connection without client).
RECURSIVE awaits_aclose(_, _, _)
awaits_aclose(cs, objs, i) ==
    IF i > Len(cs) THEN 0
    ELSE IF objs[cs[i]].client THEN i
    ELSE awaits_aclose(cs, objs, i + 1)

\* A close() that also empties the queue when its loop ends.
close_continues_and_drains(i, objs) ==
    LET k == awaits_aclose(connections, objs, i) IN
    /\ mcp_connection' = objs
    /\ closing' = k
    /\ connections' = IF k = 0 THEN << >> ELSE connections
    /\ available_connections' = IF k = 0 THEN << >> ELSE available_connections

\* close() runs from connections[i] on, until it awaits an aclose() or its
\* loop ends and it clears the list
close_continues(i, objs) ==
    LET k == awaits_aclose(connections, objs, i) IN
    /\ mcp_connection' = objs
    /\ closing' = k
    /\ connections' = IF k = 0 THEN << >> ELSE connections
    /\ UNCHANGED available_connections

\* close() is called: it takes the lock and runs up to its first suspension.
PoolClose ==
    /\ closing = 0
    /\ close_continues(1, mcp_connection)
    /\ UNCHANGED <<max_connections, metrics, calls, pc, conn, attempt,
                   use_circuit_breaker, result,
                   breakerVars, breakerGhosts, executorVars, valueVars, clientVars>>

\* The aclose() that close() awaits returns: that connection is closed and
\* the loop goes on.
PoolCloseResumes ==
    /\ closing > 0
    /\ close_continues(closing + 1,
          [mcp_connection EXCEPT ![connections[closing]] = MCPConnection_close(@)])
    /\ UNCHANGED <<max_connections, metrics, calls, pc, conn, attempt,
                   use_circuit_breaker, result,
                   breakerVars, breakerGhosts, executorVars, valueVars, clientVars>>

\* MCPConnectionPool.stream_tool up to its first suspension: get_connection(),
\* then the stream of MCPConnection.stream_tool is opened.
PoolStreamTool(c) ==
    /\ pc[c] = "idle"
    /\ calls < MaxCalls
    /\ calls' = calls + 1
    /\ IF available_connections # <<>>
       THEN \E connects \in BOOLEAN : get_connection(c, connects, "stream")
       ELSE /\ pc' = [pc EXCEPT ![c] = "stream_tool_get"]
            /\ UNCHANGED <<conn, mcp_connection, available_connections, result>>
    /\ UNCHANGED <<max_connections, closing, connections, metrics, attempt,
                   use_circuit_breaker, breakerVars, breakerGhosts, executorVars, valueVars, clientVars>>

\* A caller suspended in stream_tool's get_connection() gets an entry.
PoolStreamToolGet(c) ==
    /\ pc[c] = "stream_tool_get"
    /\ \E connects \in BOOLEAN : get_connection(c, connects, "stream")
    /\ UNCHANGED <<max_connections, closing, connections, metrics, calls, attempt,
                   use_circuit_breaker, breakerVars, breakerGhosts, executorVars, valueVars, clientVars>>

\* How a stream can end: the server ended it after its last event, or the
\* request or the stream raised (raise_for_status, the transport).
StreamOutcomes == {"streamed", "stream_error"}

\* An end of stream_tool that is counted and reported like a call_tool.
PoolStreamEnds_as_call(c) ==
    /\ pc[c] = "stream"
    /\ \E how \in StreamOutcomes :
          /\ result' = [result EXCEPT ![c] = how]
          /\ metrics' = IF how = "streamed"
                        THEN [metrics EXCEPT !.successful_calls = @ + 1]
                        ELSE [metrics EXCEPT !.failed_calls = @ + 1]
          /\ circuit_breaker' = recorded(circuit_breaker, how = "streamed", now)
    /\ return_connection(c)
    /\ pc' = [pc EXCEPT ![c] = "idle"]
    /\ UNCHANGED <<max_connections, closing, mcp_connection, connections, calls,
                   attempt, use_circuit_breaker, now, breakerGhosts,
                   executorVars, valueVars, clientVars>>

\* The stream ends: the finally block of stream_tool returns the connection.
PoolStreamEnds(c) ==
    /\ pc[c] = "stream"
    /\ \E how \in StreamOutcomes : result' = [result EXCEPT ![c] = how]
    /\ return_connection(c)
    /\ pc' = [pc EXCEPT ![c] = "idle"]
    /\ UNCHANGED <<max_connections, closing, mcp_connection, connections, metrics, calls,
                   attempt, use_circuit_breaker, breakerVars, breakerGhosts,
                   executorVars, valueVars, clientVars>>

PoolLifeNext ==
    \/ PoolTick
    \/ PoolInitialize
    \/ PoolClose
    \/ PoolCloseResumes
    \/ \E c \in Callers : PoolCallTool(c)
    \/ \E c \in Callers : PoolCallToolGet(c)
    \/ \E c \in Callers : PoolAttemptEnds(c)
    \/ \E c \in Callers : PoolStreamTool(c)
    \/ \E c \in Callers : PoolStreamToolGet(c)
    \/ \E c \in Callers : PoolStreamEnds(c)

PoolLifeSpec == PoolLifeInit /\ [][PoolLifeNext]_vars

\* C33: the pool never owns more than max_connections connections and its
\* queue never holds more than max_connections entries, also after a
\* repeated initialize().
C33_CapacityFixed ==
    /\ Len(connections) <= max_connections
    /\ Len(available_connections) <= max_connections

\* The first initialize() of a pool makes exactly max_connections
\* connections, none of them active, all of them in the queue.
C33_FirstInitialize ==
    [][(mcp_connection = << >> /\ mcp_connection' # << >>) =>
          /\ Len(connections') = max_connections
          /\ available_connections' = connections'
          /\ \A i \in 1..Len(connections') :
                mcp_connection'[connections'[i]] = MCPConnection]_vars

\* C38: a stream_tool leaves the breaker and the four counters as they are
\* at each of its steps: when it borrows a connection at once (also while the
\* breaker is Open), when it starts to wait for one, when it gets one after
\* the wait, when its lazy connect raises, and when the stream completes or
\* fails.
C38_StreamBypassesBreaker ==
    [][\A c \in Callers :
        /\ ( /\ pc[c] = "idle"
             /\ pc'[c] \in {"stream_tool_get", "stream"} )
           => /\ circuit_breaker' = circuit_breaker
              /\ metrics' = metrics
        /\ ( /\ pc[c] = "idle"
             /\ result[c] # "connect_error" /\ result'[c] = "connect_error"
             /\ metrics' = metrics )
           => circuit_breaker' = circuit_breaker
        /\ ( /\ pc[c] \in {"stream_tool_get", "stream"}
             /\ pc'[c] # pc[c] )
           => /\ circuit_breaker' = circuit_breaker
              /\ metrics' = metrics
              /\ pc[c] = "stream" =>
                    /\ result'[c] \in StreamOutcomes
                    /\ available_connections' = Append(available_connections, conn[c])
      ]_vars

\* A stream on the only connection of the pool, borrowed while the breaker
\* was Open: the breaker was opened by a failed call_tool on that connection
\* and still rejects.
C38_Witness ==
    \E c \in Callers :
        /\ pc[c] = "stream"
        /\ Len(mcp_connection) = 1
        /\ circuit_breaker.state = OPEN
        /\ ~can_attempt(circuit_breaker, now).ret
        /\ metrics.failed_calls = 1 /\ metrics.total_calls = 1

\* C39: close() closes the connections the pool owns and empties the list,
\* and leaves the queue as it is: when close() has ended, get_metrics()
\* reports 0 active connections and the queue length it had before.
C39_CloseLeavesQueue ==
    [][/\ (closing' # closing \/ (connections # << >> /\ connections' = << >>)) =>
          /\ available_connections' = available_connections
          /\ get_metrics(metrics', circuit_breaker', connections', available_connections')
                .available_connections = Len(available_connections)
          /\ closing > 0 =>
                mcp_connection'[connections[closing]] = [client |-> FALSE, is_active |-> FALSE]
          /\ closing' > 0 =>
                /\ connections' = connections
                /\ mcp_connection'[connections[closing']].client
          /\ \A i \in 1..Len(connections) :
                (i > closing /\ (closing' = 0 \/ i < closing')) =>
                    ~mcp_connection'[connections[i]].client
          /\ closing' = 0 =>
                /\ connections' = << >>
                /\ get_metrics(metrics', circuit_breaker', connections', available_connections')
                      .active_connections = 0
       /\ (connections = << >> /\ connections' = << >>) =>
             \A c \in Callers :
                (pc[c] # "post" /\ pc'[c] = "post") =>
                    /\ conn'[c] = Head(available_connections)
                    /\ mcp_connection'[conn'[c]].is_active
      ]_vars

\* After close(), with no connection owned and 0 active connections
\* reported, a call_tool is at its first POST on the pool's only connection,
\* active again; an earlier call succeeded on it, and close() closed it.
C39_Witness ==
    \E c \in Callers :
        /\ Len(mcp_connection) = 1
        /\ connections = << >> /\ closing = 0
        /\ get_metrics(metrics, circuit_breaker, connections, available_connections)
              .active_connections = 0
        /\ metrics.successful_calls = 1 /\ metrics.total_calls = 2
        /\ pc[c] = "post" /\ attempt[c] = 1
        /\ mcp_connection[conn[c]].is_active

\* ------------------------------------------- the client and its callers
ClientInit ==
    /\ FastMCPClient
    /\ SimpleExecutor
    /\ NoValues
    /\ PoolInitialized(1)
    /\ circuit_breaker = CircuitBreaker(1, 1, DefaultSuccessThreshold)
    /\ now = 0
    /\ last_call = NoCall
    /\ fail_run = 0
    /\ half_open_run = -1

Outcome(kind, id, body) == [kind |-> kind, id |-> id, body |-> body]

TaskAt(c, where, sess, stream) ==
    [task[c] EXCEPT !.pc = where, !.sess = sess, !.stream = stream]

TaskEnds(c, outcome) ==
    [task[c] EXCEPT !.pc = "idle", !.sess = 0, !.stream = 0, !.result = outcome]

\* A connect() that never finds the client connected.
Connected_never(self) == FALSE

\* connect() line 29: the session is open and the endpoint known
Connected(self) ==
    self.sse_session # 0 /\ self.endpoint # 0 /\ self.sse_session \notin closed

\* A close() that also restarts the message counter.
close_resets_ids(self) ==
    [self EXCEPT !.sse_session = 0, !.post_session = 0, !.sse_response = 0,
                 !.endpoint = 0, !.session_id = 0, !.message_id = 0]

\* close(): the fields of the client afterwards
close(self) ==
    [self EXCEPT !.sse_session = 0, !.post_session = 0, !.sse_response = 0,
                 !.endpoint = 0, !.session_id = 0]

\* Closing ClientSessions ends the streams opened through them, and closing
\* a response ends its stream; what was not yet read from it is gone.
Shut(gens, response) ==
    [s \in 1..Len(streams) |->
        IF streams[s].via \in gens \/ s = response
        THEN [streams[s] EXCEPT !.open = FALSE, !.events = << >>]
        ELSE streams[s]]

\* The requests the server still has whose stream is not among those shut;
\* the answers to the others have nowhere to go.
Answerable(gens, response) ==
    {r \in inbox : ~(streams[r.stream].via \in gens \/ r.stream = response)}

\* close(), with what it does to the sessions and the stream
Closes ==
    /\ client' = close(client)
    /\ closed' = closed \cup ({client.sse_session, client.post_session} \ {0})
    /\ streams' = Shut({client.sse_session, client.post_session} \ {0},
                       client.sse_response)
    /\ inbox' = Answerable({client.sse_session, client.post_session} \ {0},
                           client.sse_response)

\* An except clause that re-raises without calling close().
ConnectFails_without_close(c) ==
    /\ task' = [task EXCEPT ![c] = TaskEnds(c, Outcome("connect_error", 0, "none"))]
    /\ UNCHANGED <<client, closed, streams, inbox, sessions, listener_created,
                   listeners, sent>>

\* connect() fails: its except clause calls close() and re-raises, and the
\* call_tool that called connect() raises with it.
ConnectFails(c) ==
    /\ Closes
    /\ task' = [task EXCEPT ![c] = TaskEnds(c, Outcome("connect_error", 0, "none"))]
    /\ UNCHANGED <<sessions, listener_created, listeners, sent>>

\* The server writes an event to a stream; an event for a closed stream is lost.
Answer(s, event) ==
    IF streams[s].open
    THEN [streams EXCEPT ![s].events = Append(@, event)]
    ELSE streams

\* _next_id()
next_id(m) == m + 1

\* A pop that leaves the entry where it is.
pop_keeps(pending, m) == pending

\* self.pending_responses.pop(msg_id, None)
Pop(pending, m) == [k \in DOMAIN pending \ {m} |-> pending[k]]

\* A _send_message that POSTs first and registers the future afterwards.
SendToolCall_then_registers(c) ==
    LET m == next_id(client.message_id)
        self == [client EXCEPT !.message_id = m]
    IN /\ sent' = Append(sent, [id |-> m, sess |-> self.post_session])
       /\ client' = self
       /\ IF self.post_session = 0 \/ self.endpoint = 0
          THEN /\ task' = [task EXCEPT ![c] =
                     [TaskEnds(c, Outcome("not_connected", m, "none")) EXCEPT !.msg_id = m]]
               /\ UNCHANGED inbox
          ELSE /\ inbox' = inbox \cup {[id |-> m, body |-> c, stream |-> self.endpoint]}
               /\ task' = [task EXCEPT ![c] =
                     [TaskAt(c, "post", self.post_session, 0) EXCEPT
                         !.msg_id = m, !.result = NoResult]]

\* call_tool after connect() has returned, up to the POST of _send_message:
\* the next id, the message, the connected check, the future, the POST.
SendToolCall(c) ==
    LET m == next_id(client.message_id)
        self == [client EXCEPT !.message_id = m]
    IN /\ sent' = Append(sent, [id |-> m, sess |-> self.post_session])
       /\ IF self.post_session = 0 \/ self.endpoint = 0
          THEN /\ client' = self
               /\ task' = [task EXCEPT ![c] =
                     [TaskEnds(c, Outcome("not_connected", m, "none")) EXCEPT !.msg_id = m]]
               /\ UNCHANGED inbox
          ELSE /\ client' = [self EXCEPT !.pending_responses = (m :> Future) @@ @]
               /\ inbox' = inbox \cup {[id |-> m, body |-> c, stream |-> self.endpoint]}
               /\ task' = [task EXCEPT ![c] =
                     [TaskAt(c, "post", self.post_session, 0) EXCEPT
                         !.msg_id = m, !.result = NoResult]]

\* call_tool(): connect() returns at once on a connected client; otherwise it
\* closes what is left of the old sessions, creates two new ones and GETs /sse.
ClientCallTool(c) ==
    /\ task[c].pc = "idle"
    /\ ops < MaxOps
    /\ ops' = ops + 1
    /\ IF Connected(client)
       THEN /\ SendToolCall(c)
            /\ UNCHANGED <<sessions, closed, streams, listener_created, listeners>>
       ELSE /\ LET old == {client.sse_session, client.post_session} \ ({0} \cup closed)
                   g == sessions + 1
               IN /\ closed' = closed \cup old
                  /\ streams' = Shut(old, 0)
                  /\ inbox' = Answerable(old, 0)
                  /\ sessions' = g
                  /\ client' = [client EXCEPT !.sse_session = g, !.post_session = g]
                  /\ task' = [task EXCEPT ![c] =
                        [TaskAt(c, "connect_get", g, 0) EXCEPT
                            !.msg_id = 0, !.result = NoResult]]
            /\ UNCHANGED <<listener_created, listeners, sent>>
    /\ UNCHANGED <<breakerVars, breakerGhosts, executorVars, valueVars, poolVars, faults>>

\* The GET of /sse ends: status 200 and a new stream, or another status or a
\* transport error (always so when the session was closed meanwhile).
ConnectGetReturns(c) ==
    /\ task[c].pc = "connect_get"
    /\ \E status \in {"200", "error"} :
          IF status = "error" \/ task[c].sess \in closed
          THEN ConnectFails(c)
          ELSE /\ streams' = Append(streams,
                      [events |-> << >>, open |-> TRUE, via |-> task[c].sess])
               /\ client' = [client EXCEPT !.sse_response = Len(streams) + 1]
               /\ task' = [task EXCEPT ![c] =
                     TaskAt(c, "connect_read", 0, Len(streams) + 1)]
               /\ UNCHANGED <<sessions, closed, inbox, listener_created, listeners>>
    /\ UNCHANGED <<breakerVars, breakerGhosts, executorVars, valueVars, poolVars, faults, ops, sent>>

\* The reading of the first events ends: the endpoint event was found, or the
\* stream ended without one. Then the endpoint check, create_task, sleep.
ConnectReadReturns(c) ==
    /\ task[c].pc = "connect_read"
    /\ \E found \in BOOLEAN :
          LET s == task[c].stream
              self == IF found /\ streams[s].open
                      THEN [client EXCEPT !.endpoint = s, !.session_id = s]
                      ELSE client
          IN IF self.endpoint = 0
             THEN ConnectFails(c)
             ELSE /\ client' = self
                  /\ listener_created' = listener_created + 1
                  /\ task' = [task EXCEPT ![c] = TaskAt(c, "connect_sleep", 0, 0)]
                  /\ UNCHANGED <<sessions, closed, streams, inbox, listeners>>
    /\ UNCHANGED <<breakerVars, breakerGhosts, executorVars, valueVars, poolVars, faults, ops, sent>>

\* After the sleep: _send_message(initialize, id 0) up to its POST. The id 0
\* is falsy, so no future is registered for it. The event loop runs the
\* listener task, ready since create_task, before the timer of the sleep.
ConnectSleepReturns(c) ==
    /\ task[c].pc = "connect_sleep"
    /\ listener_created = 0
    /\ IF client.post_session = 0 \/ client.endpoint = 0
       THEN ConnectFails(c)
       ELSE /\ task' = [task EXCEPT ![c] =
                  TaskAt(c, "connect_post", client.post_session, client.endpoint)]
            /\ UNCHANGED <<client, sessions, closed, streams, inbox,
                           listener_created, listeners>>
    /\ UNCHANGED <<breakerVars, breakerGhosts, executorVars, valueVars, poolVars, faults, ops, sent>>

\* The POST of initialize ends. With 200 or 202 _send_message returns
\* "accepted" without waiting (msg_id is 0), connect() returns and call_tool
\* goes on to its own message. The server, which handles the messages of a
\* session in turn, has put its answer to initialize on the stream by then.
ConnectPostReturns(c) ==
    /\ task[c].pc = "connect_post"
    /\ \E status \in {"202", "error"} :
          IF status = "error" \/ task[c].sess \in closed
          THEN ConnectFails(c)
          ELSE /\ SendToolCall(c)
               /\ streams' = Answer(task[c].stream, [id |-> 0, kind |-> "result",
                                                     body |-> "initialize"])
               /\ UNCHANGED <<sessions, closed, listener_created, listeners>>
    /\ UNCHANGED <<breakerVars, breakerGhosts, executorVars, valueVars, poolVars, faults, ops>>

\* An except clause that re-raises and leaves the entry in place.
PostReturns_keeps_entry(c) ==
    /\ task[c].pc = "post"
    /\ \E status \in {"202", "error"} :
          IF status = "error" \/ task[c].sess \in closed
          THEN task' = [task EXCEPT ![c] =
                  TaskEnds(c, Outcome("transport_error", task[c].msg_id, "none"))]
          ELSE task' = [task EXCEPT ![c] = TaskAt(c, "wait", 0, 0)]
    /\ UNCHANGED <<client, sessions, closed, streams, inbox, listener_created,
                   listeners, breakerVars, breakerGhosts, executorVars, valueVars,
                   poolVars, faults, ops, sent>>

\* The POST of tools/call ends: 200 or 202 and the caller waits for its
\* future; anything else raises, and the except clause pops the entry.
PostReturns(c) ==
    /\ task[c].pc = "post"
    /\ \E status \in {"202", "error"} :
          IF status = "error" \/ task[c].sess \in closed
          THEN /\ client' = [client EXCEPT
                     !.pending_responses = Pop(@, task[c].msg_id)]
               /\ task' = [task EXCEPT ![c] =
                     TaskEnds(c, Outcome("transport_error", task[c].msg_id, "none"))]
          ELSE /\ task' = [task EXCEPT ![c] = TaskAt(c, "wait", 0, 0)]
               /\ UNCHANGED client
    /\ UNCHANGED <<sessions, closed, streams, inbox, listener_created, listeners,
                   breakerVars, breakerGhosts, executorVars, valueVars, poolVars, faults, ops, sent>>

\* call_tool on the response _send_message returned: an error field raises,
\* otherwise the result is extracted.
call_tool_returns(response) ==
    IF response.kind \in {"error", "result_and_error"}
    THEN Outcome("tool_error", response.id, response.body)
    ELSE Outcome("ok", response.id, response.body)

\* A wait without the finally clause: the value is returned, the entry stays.
WaitReturns_keeps_entry(c) ==
    /\ task[c].pc = "wait"
    /\ client.pending_responses[task[c].msg_id].done
    /\ task' = [task EXCEPT ![c] =
          TaskEnds(c, call_tool_returns(client.pending_responses[task[c].msg_id].value))]
    /\ UNCHANGED <<client, sessions, closed, streams, inbox, listener_created,
                   listeners, breakerVars, breakerGhosts, executorVars, valueVars,
                   poolVars, faults, ops, sent>>

\* The awaited future is done: _send_message returns its value and pops the
\* entry, and call_tool returns or raises.
WaitReturns(c) ==
    /\ task[c].pc = "wait"
    /\ client.pending_responses[task[c].msg_id].done
    /\ task' = [task EXCEPT ![c] =
          TaskEnds(c, call_tool_returns(client.pending_responses[task[c].msg_id].value))]
    /\ client' = [client EXCEPT !.pending_responses = Pop(@, task[c].msg_id)]
    /\ UNCHANGED <<sessions, closed, streams, inbox, listener_created, listeners,
                   breakerVars, breakerGhosts, executorVars, valueVars, poolVars, faults, ops, sent>>

\* A wait without a deadline: `await future` in place of wait_for.
WaitTimesOut_never(c) ==
    /\ FALSE
    /\ UNCHANGED vars

\* wait_for gives up after 30 s: the error names msg_id, the entry is popped.
WaitTimesOut(c) ==
    /\ task[c].pc = "wait"
    /\ ~client.pending_responses[task[c].msg_id].done
    /\ task' = [task EXCEPT ![c] =
          TaskEnds(c, Outcome("timeout", task[c].msg_id, "none"))]
    /\ client' = [client EXCEPT !.pending_responses = Pop(@, task[c].msg_id)]
    /\ UNCHANGED <<sessions, closed, streams, inbox, listener_created, listeners,
                   breakerVars, breakerGhosts, executorVars, valueVars, poolVars, faults, ops, sent>>

\* close() called by a user of the client (it has no await that suspends
\* between its assignments)
ClientClose ==
    /\ ops < MaxOps
    /\ ops' = ops + 1
    /\ Closes
    /\ UNCHANGED <<sessions, listener_created, listeners, task, sent,
                   breakerVars, breakerGhosts, executorVars, valueVars, poolVars, faults>>

\* A listener that gives the response to the oldest pending request.
listener_by_arrival(event, pending) ==
    IF event.kind \in {"result", "result_and_error"} /\ DOMAIN pending # {}
    THEN LET m == CHOOSE k \in DOMAIN pending : \A j \in DOMAIN pending : k <= j
         IN IF pending[m].done
            THEN [pending |-> pending, alive |-> FALSE]
            ELSE [pending |-> [pending EXCEPT ![m] = [done |-> TRUE, value |-> event]],
                  alive |-> TRUE]
    ELSE [pending |-> pending, alive |-> TRUE]

\* _listen_sse_events on one data line. A payload that is not JSON raises
\* JSONDecodeError, which is caught. On a payload that is JSON but a number,
\* true, false or null, `"id" in event_data` raises TypeError, which only the
\* outer except catches: the listener ends. A payload with "id" and "result"
\* whose id is pending resolves that future; set_result on a future that is
\* already done raises InvalidStateError, which ends the listener too.
\* Everything else is ignored.
listener(event, pending) ==
    IF event.kind = "json_scalar"
    THEN [pending |-> pending, alive |-> FALSE]
    ELSE IF event.kind \in {"result", "result_and_error"} /\ event.id \in DOMAIN pending
    THEN IF pending[event.id].done
         THEN [pending |-> pending, alive |-> FALSE]
         ELSE [pending |-> [pending EXCEPT ![event.id] = [done |-> TRUE, value |-> event]],
               alive |-> TRUE]
    ELSE [pending |-> pending, alive |-> TRUE]

\* A created listener task starts: it reads the stream self.sse_response names
\* at that moment (and ends at once if there is none).
ListenerStarts ==
    /\ listener_created > 0
    /\ listener_created' = listener_created - 1
    /\ listeners' = IF client.sse_response = 0 THEN listeners
                    ELSE [listeners EXCEPT ![client.sse_response] = @ + 1]
    /\ UNCHANGED <<client, sessions, closed, streams, inbox, task,
                   breakerVars, breakerGhosts, executorVars, valueVars, poolVars, faults, ops, sent>>

ListenerReads(s) ==
    /\ listeners[s] > 0
    /\ s <= Len(streams)
    /\ streams[s].open
    /\ streams[s].events # << >>
    /\ LET h == listener(Head(streams[s].events), client.pending_responses)
       IN /\ client' = [client EXCEPT !.pending_responses = h.pending]
          /\ listeners' = IF h.alive THEN listeners
                          ELSE [listeners EXCEPT ![s] = @ - 1]
    /\ streams' = [streams EXCEPT ![s].events = Tail(@)]
    /\ UNCHANGED <<sessions, closed, inbox, listener_created, task,
                   breakerVars, breakerGhosts, executorVars, valueVars, poolVars, faults, ops, sent>>

\* The stream a listener reads has been closed: the listener ends.
ListenerExits(s) ==
    /\ listeners[s] > 0
    /\ s <= Len(streams)
    /\ ~streams[s].open
    /\ listeners' = [listeners EXCEPT ![s] = @ - 1]
    /\ UNCHANGED <<client, sessions, closed, streams, inbox, listener_created, task,
                   breakerVars, breakerGhosts, executorVars, valueVars, poolVars, faults, ops, sent>>

\* The server answers a request it received, in any order, on the stream of
\* the session the request was POSTed to; an answer to a closed stream is lost.
ServerResponds(r) ==
    /\ r \in inbox
    /\ inbox' = inbox \ {r}
    /\ \E kind \in {"result", "error"} :
          streams' = Answer(r.stream, [id |-> r.id, kind |-> kind, body |-> r.body])
    /\ UNCHANGED <<client, sessions, closed, listener_created, listeners, task,
                   breakerVars, breakerGhosts, executorVars, valueVars, poolVars, faults, ops, sent>>

ClientNext ==
    \/ \E c \in Callers : ClientCallTool(c)
    \/ \E c \in Callers : ConnectGetReturns(c)
    \/ \E c \in Callers : ConnectReadReturns(c)
    \/ \E c \in Callers : ConnectSleepReturns(c)
    \/ \E c \in Callers : ConnectPostReturns(c)
    \/ \E c \in Callers : PostReturns(c)
    \/ \E c \in Callers : WaitReturns(c)
    \/ \E c \in Callers : WaitTimesOut(c)
    \/ ClientClose
    \/ ListenerStarts
    \/ \E s \in 1..MaxOps : ListenerReads(s)
    \/ \E s \in 1..MaxOps : ListenerExits(s)
    \/ \E r \in inbox : ServerResponds(r)

ClientSpec == ClientInit /\ [][ClientNext]_vars

\* ------------------------------------------- the client on a faulty stream
\* The transport of an open stream ends (the server or the network drops it):
\* nothing more can be read from it or written to it. The client's sessions
\* and fields are as they were.
StreamFails(s) ==
    /\ faults < MaxFaults
    /\ s <= Len(streams)
    /\ streams[s].open
    /\ faults' = faults + 1
    /\ streams' = Shut({}, s)
    /\ inbox' = Answerable({}, s)
    /\ UNCHANGED <<client, sessions, closed, listener_created, listeners, task,
                   ops, sent, breakerVars, breakerGhosts, executorVars, valueVars, poolVars>>

\* The server answers a request and keeps it, so that it answers it again.
ServerRepeats(r) ==
    /\ faults < MaxFaults
    /\ r \in inbox
    /\ faults' = faults + 1
    /\ streams' = Answer(r.stream, [id |-> r.id, kind |-> "result", body |-> r.body])
    /\ UNCHANGED <<client, sessions, closed, inbox, listener_created, listeners,
                   task, ops, sent, breakerVars, breakerGhosts, executorVars, valueVars, poolVars>>

\* A data line that is no response: text that is not JSON, JSON that is not
\* an object, an object without an id (a notification).
JunkKinds == {"not_json", "json_scalar", "notification"}

ServerEmitsJunk(s) ==
    /\ faults < MaxFaults
    /\ s <= Len(streams)
    /\ streams[s].open
    /\ faults' = faults + 1
    /\ \E kind \in JunkKinds :
          streams' = Answer(s, [id |-> 0, kind |-> kind, body |-> "none"])
    /\ UNCHANGED <<client, sessions, closed, inbox, listener_created, listeners,
                   task, ops, sent, breakerVars, breakerGhosts, executorVars, valueVars, poolVars>>

ClientFaultNext ==
    \/ ClientNext
    \/ \E s \in 1..MaxOps : StreamFails(s)
    \/ \E r \in inbox : ServerRepeats(r)
    \/ \E s \in 1..MaxOps : ServerEmitsJunk(s)

ClientFaultSpec == ClientInit /\ [][ClientFaultNext]_vars

\* The client whose stream the server or the network may drop, with the
\* timer of wait_for, which fires 30 s after the wait began, and the event
\* loop, which resumes a caller whose future is done.
ClientFairNext ==
    \/ ClientNext
    \/ \E s \in 1..MaxOps : StreamFails(s)

ClientFairSpec ==
    /\ ClientInit
    /\ [][ClientFairNext]_vars
    /\ \A c \in Callers : WF_vars(WaitTimesOut(c)) /\ WF_vars(WaitReturns(c))

\* ------------------------------------------- the executor and its callers
\* Two entries of the skill map: the params lambda of track-shipment only
\* uses p.get(...), that of batch-track uses p["shipment_ids"].
Skills == {"track-shipment", "batch-track"}

SkillInputs == Skills \cup {"no-such-skill"}

ParameterInputs == {"complete", "missing_key", "not_a_dict"}

\* skill_config["params"](parameters): the tool parameters, or the exception
\* the lambda raises (p.get on something that is no dict, p[key] without key)
params(skill, p) ==
    IF p = "not_a_dict" THEN "attribute_error"
    ELSE IF skill = "batch-track" /\ p = "missing_key" THEN "key_error"
    ELSE "tool_params"

\* How get_fastmcp_client() and client.call_tool() can end for the executor:
\* with the result, or raising as the client does.
CallToolFailures ==
    {"connect_error", "not_connected", "transport_error", "timeout", "tool_error"}

\* An except clause that only handles the tool error.
Caught_tool_error_only(kind) == kind = "tool_error"

\* `except Exception`: everything the lambdas and the client raise derives
\* from Exception.
Caught(kind) ==
    kind \in CallToolFailures \cup {"attribute_error", "key_error"}

Failure(skill, text) ==
    [success |-> FALSE, skill |-> skill, result |-> "none", error |-> text]

\* execute_skill() ends on an exception: the handler returns the failure
\* payload, or the exception leaves execute_skill().
execute_skill_fails(c, kind) ==
    [executor[c] EXCEPT
        !.pc = "idle", !.outcome = kind,
        !.raised = ~Caught(kind),
        !.payload = IF Caught(kind) THEN Failure(executor[c].skill, kind)
                    ELSE NoPayload]

\* execute_skill() up to `await get_fastmcp_client()`: the skill lookup and
\* the parameter transform.
ExecuteSkill(c) ==
    /\ executor[c].pc = "idle"
    /\ \E skill \in SkillInputs, parameters \in ParameterInputs :
          LET started == [IdleExecution EXCEPT !.skill = skill]
              tool_params == params(skill, parameters)
          IN executor' = [executor EXCEPT ![c] =
                IF skill \notin Skills
                THEN [started EXCEPT !.outcome = "unknown_skill",
                                     !.payload = Failure("none", "unknown_skill")]
                ELSE IF tool_params # "tool_params"
                THEN [execute_skill_fails(c, tool_params) EXCEPT !.skill = skill,
                         !.payload = IF Caught(tool_params)
                                     THEN Failure("none", tool_params)
                                     ELSE NoPayload]
                ELSE [started EXCEPT !.pc = "get_client",
                                     !.tool_params = tool_params]]
    /\ UNCHANGED <<breakerVars, breakerGhosts, poolVars, clientVars, valueVars>>

\* get_fastmcp_client() returns the connected client, or its connect() raises.
GetClientReturns(c) ==
    /\ executor[c].pc = "get_client"
    /\ \E connected \in BOOLEAN :
          executor' = [executor EXCEPT ![c] =
             IF connected THEN [@ EXCEPT !.pc = "call_tool"]
             ELSE execute_skill_fails(c, "connect_error")]
    /\ UNCHANGED <<breakerVars, breakerGhosts, poolVars, clientVars, valueVars>>

\* client.call_tool() returns its result or raises.
CallToolReturns(c) ==
    /\ executor[c].pc = "call_tool"
    /\ \E outcome \in CallToolFailures \cup {"ok"} :
          executor' = [executor EXCEPT ![c] =
             IF outcome = "ok"
             THEN [@ EXCEPT !.pc = "idle", !.outcome = "ok",
                      !.payload = [success |-> TRUE, skill |-> @.skill,
                                   result |-> "result", error |-> "none"]]
             ELSE execute_skill_fails(c, outcome)]
    /\ UNCHANGED <<breakerVars, breakerGhosts, poolVars, clientVars, valueVars>>

ExecutorNext ==
    \/ \E c \in Callers : ExecuteSkill(c)
    \/ \E c \in Callers : GetClientReturns(c)
    \/ \E c \in Callers : CallToolReturns(c)

ExecutorSpec == ClientInit /\ [][ExecutorNext]_vars

\* C20: execute_skill never raises: an unknown skill, a failing parameter
\* transform, a connect failure, a POST failure, a timeout and a tool error
\* all end in a payload with success false and an error text, and success is
\* true only when call_tool returned a result.
C20_NeverRaises ==
    \A c \in Callers :
       /\ ~executor[c].raised
       /\ (executor[c].pc = "idle" /\ executor[c].outcome # "none") =>
             /\ executor[c].payload.success <=> executor[c].outcome = "ok"
             /\ executor[c].payload.success => executor[c].payload.result = "result"
             /\ ~executor[c].payload.success =>
                   /\ executor[c].payload.error = executor[c].outcome
                   /\ executor[c].payload.error # "none"

\* One execute_skill has returned the result, another has ended on a timeout.
C20_Witness ==
    \E c, d \in Callers :
       /\ executor[c].pc = "idle" /\ executor[c].payload.success
       /\ executor[d].pc = "idle" /\ executor[d].outcome = "timeout"
       /\ ~executor[d].payload.success

\* ----------------------------------- endpoint discovery on one session id
MaxIdLen == 33

HexDigits ==
    {"0", "1", "2", "3", "4", "5", "6", "7", "8", "9",
     "a", "b", "c", "d", "e", "f", "A", "B", "C", "D", "E", "F"}

\* a1b2c3d4e5f67890abcdef1234567890
ExampleId ==
    <<"a", "1", "b", "2", "c", "3", "d", "4", "e", "5", "f", "6", "7", "8",
      "9", "0", "a", "b", "c", "d", "e", "f", "1", "2", "3", "4", "5", "6",
      "7", "8", "9", "0">>

\* The session_id query values tried: the example, the example already
\* hyphenated, and every text of up to MaxIdLen equal hexadecimal digits in
\* which one place holds another character.
SessionIdInputs ==
    {ExampleId, hyphenated(ExampleId)}
    \cup { [i \in 1..n |-> IF i = at THEN ch ELSE fill] :
              n \in 0..MaxIdLen, at \in 1..MaxIdLen, fill \in {"a", "0"},
              ch \in {"F", "g", "-", "_", "z"} }

DiscoveryInit ==
    /\ raw_session_id \in SessionIdInputs
    /\ session_id = NoSessionId
    /\ tool_response = PyNone
    /\ returned = NotReturned
    /\ FastMCPClient
    /\ SimpleExecutor
    /\ PoolInitialized(1)
    /\ circuit_breaker = CircuitBreaker(1, 1, DefaultSuccessThreshold)
    /\ now = 0
    /\ last_call = NoCall
    /\ fail_run = 0
    /\ half_open_run = -1

\* connect() reads the endpoint event and stores the session id.
ConnectStoresSessionId ==
    /\ session_id = NoSessionId
    /\ session_id' = stored_session_id(raw_session_id)
    /\ UNCHANGED <<raw_session_id, tool_response, returned, breakerVars,
                   breakerGhosts, poolVars, clientVars, executorVars>>

DiscoveryNext == ConnectStoresSessionId

DiscoverySpec == DiscoveryInit /\ [][DiscoveryNext]_vars

\* C23: a session_id query value of exactly 32 hexadecimal characters is
\* stored as 8-4-4-4-12 with hyphens, and every other value is stored as
\* it is.
C23_HexReformattedOthersVerbatim ==
    session_id # NoSessionId =>
       IF /\ Len(raw_session_id) = UuidHexLen
          /\ \A i \in 1..Len(raw_session_id) : raw_session_id[i] \in HexDigits
       THEN /\ Len(session_id) = 36
            /\ session_id = hyphenated(raw_session_id)
       ELSE session_id = raw_session_id

\* ------------------------------------- result extraction on one response
Texts ==
    {"{\"status\": \"in_transit\"}", "{}", "[]", "5", "null", "\"delivered\"",
     "in transit", "", "{\"status\": "}

TextInputs == {PyStr(t) : t \in Texts} \cup {PyInt("5"), PyNone}

FirstItemInputs ==
    {PyStr("plain"), PyInt("5"), PyNone, PyList(<< >>),
     PyDict(<<"type">>, <<PyStr("image")>>)}
    \cup {PyDict(<<"type", "text">>, <<PyStr("text"), t>>) : t \in TextInputs}

ContentInputs ==
    {PyStr("plain"), PyNone, PyDict(<< >>, << >>), PyList(<< >>)}
    \cup {PyList(<<f>>) : f \in FirstItemInputs}
    \cup {PyList(<<f, PyStr("more")>>) : f \in FirstItemInputs}

ResultInputs ==
    {PyStr("plain"), PyInt("5"), PyNone, PyList(<< >>), PyDict(<< >>, << >>),
     PyDict(<<"status">>, <<PyStr("in_transit")>>)}
    \cup {PyDict(<<"content">>, <<c>>) : c \in ContentInputs}
    \cup {PyDict(<<"content", "structuredContent">>, <<c, PyNone>>) :
             c \in ContentInputs}

ResponseInputs ==
    {PyDict(<<"jsonrpc", "id", "result">>, <<PyStr("2.0"), PyInt("1"), r>>) :
        r \in ResultInputs}
    \cup {PyDict(<<"jsonrpc", "id">>, <<PyStr("2.0"), PyInt("1")>>),
          PyDict(<<"jsonrpc", "id", "error">>,
                 <<PyStr("2.0"), PyInt("1"), PyDict(<< >>, << >>)>>)}

ExtractionInit ==
    /\ tool_response \in ResponseInputs
    /\ returned = NotReturned
    /\ raw_session_id = << >>
    /\ session_id = NoSessionId
    /\ FastMCPClient
    /\ SimpleExecutor
    /\ PoolInitialized(1)
    /\ circuit_breaker = CircuitBreaker(1, 1, DefaultSuccessThreshold)
    /\ now = 0
    /\ last_call = NoCall
    /\ fail_run = 0
    /\ half_open_run = -1

\* call_tool, from the response of _send_message to its return or raise.
CallToolExtracts ==
    /\ returned = NotReturned
    /\ returned' = extract_result(tool_response)
    /\ UNCHANGED <<raw_session_id, session_id, tool_response, breakerVars,
                   breakerGhosts, poolVars, clientVars, executorVars>>

ExtractionNext == CallToolExtracts

ExtractionSpec == ExtractionInit /\ [][ExtractionNext]_vars

\* C24: a result without a content list is returned as it is; with a
\* non-empty content list whose first element is a mapping, the element's
\* text is returned parsed if it parses and as {text: raw} otherwise; a
\* first element that is no mapping is returned as it is.
C24_ExtractionPrecedence ==
    (returned # NotReturned /\ Has(tool_response, "result")
        /\ ~Has(tool_response, "error")) =>
       LET res == Get(tool_response, "result", PyNone)
           content == Get(res, "content", PyNone)
           listed == /\ res.type = "dict" /\ Has(res, "content")
                     /\ content.type = "list"
       IN /\ ~listed => returned = Returns(res)
          /\ (listed /\ Len(content.items) > 0) =>
                LET first == content.items[1]
                    text == Get(first, "text", PyNone)
                IN IF first.type # "dict" THEN returned = Returns(first)
                   ELSE Has(first, "text") =>
                           IF text.type = "str"
                              /\ json_loads(text.atom).raised = "none"
                           THEN returned = json_loads(text.atom)
                           ELSE returned = Returns(PyDict(<<"text">>, <<text>>))

\* ------------------------------------------- claims about the client
Delivered(c) == task[c].result.kind \in {"ok", "tool_error"}

\* C1: whatever the order of the responses on the stream, a caller of
\* call_tool gets the payload that carries the id of its own request (here:
\* the payload the server made for that caller), never that of another.
C1_OwnResponseOnly ==
    /\ \A c \in Callers :
          Delivered(c) =>
             task[c].result.id = task[c].msg_id /\ task[c].result.body = c
    /\ \A m \in DOMAIN client.pending_responses :
          client.pending_responses[m].done =>
             client.pending_responses[m].value.id = m

\* Two callers wait on one client; the response to the later request came
\* first and has resolved its future, the response to the earlier request is
\* still on the stream.
C1_Witness ==
    \E a, b \in Callers :
       /\ task[a].pc = "wait" /\ task[b].pc = "wait"
       /\ task[a].msg_id < task[b].msg_id
       /\ client.pending_responses[task[b].msg_id].done
       /\ ~client.pending_responses[task[a].msg_id].done
       /\ \E s \in 1..Len(streams) :
             /\ streams[s].open
             /\ streams[s].events # << >>
             /\ Head(streams[s].events).id = task[a].msg_id
             /\ Head(streams[s].events).kind = "result"

\* C2: the ids of the tools/call messages start at 1, are strictly increasing
\* in the order the messages are built, never repeat and are never 0, also
\* across close() and a reconnect.
C2_IdsStrictlyIncreasing ==
    /\ sent # << >> => sent[1].id = 1
    /\ \A i, j \in 1..Len(sent) : i < j => sent[i].id < sent[j].id
    /\ \A i \in 1..Len(sent) : sent[i].id # 0
    /\ \A c \in Callers :
          task[c].pc \in {"post", "wait"} =>
             /\ \E i \in 1..Len(sent) : sent[i].id = task[c].msg_id
             /\ \A d \in Callers \ {c} :
                   task[d].pc \in {"post", "wait"} => task[d].msg_id # task[c].msg_id

\* A message went out over one session, the session was closed, and a later
\* message went out over the session of a reconnect.
C2_Witness ==
    \E i, j \in 1..Len(sent) :
       /\ i < j
       /\ sent[i].sess # 0 /\ sent[i].sess \in closed
       /\ sent[j].sess # 0 /\ sent[j].sess # sent[i].sess

\* C3: after a timeout the message id has no entry in pending_responses, the
\* error names the id, and a response to that id is not given to anyone: no
\* future holds it and no other caller has got it.
C3_TimeoutLeavesNothing ==
    \A c \in Callers :
       task[c].result.kind = "timeout" =>
          /\ task[c].msg_id \notin DOMAIN client.pending_responses
          /\ task[c].result.id = task[c].msg_id
          /\ \A m \in DOMAIN client.pending_responses :
                client.pending_responses[m].value.id # task[c].msg_id
          /\ \A d \in Callers \ {c} :
                Delivered(d) => task[d].result.id # task[c].msg_id

\* A call has timed out, another caller still waits, and the late response to
\* the first is the next event a running listener reads.
C3_Witness ==
    \E c, d \in Callers :
       /\ task[c].result.kind = "timeout"
       /\ task[d].pc = "wait"
       /\ ~client.pending_responses[task[d].msg_id].done
       /\ \E s \in 1..Len(streams) :
             /\ streams[s].open
             /\ listeners[s] > 0
             /\ streams[s].events # << >>
             /\ Head(streams[s].events).id = task[c].msg_id
             /\ Head(streams[s].events).kind = "result"

\* C4: when the listener reads a response that carries the id of a pending
\* request and an error (no result), it resolves the future of that request,
\* so that call_tool raises the tool error instead of timing out.
C4_ErrorResponseDelivered ==
    [][\A s \in 1..Len(streams) :
          ( /\ streams[s].open /\ streams'[s].open
            /\ streams[s].events # << >>
            /\ streams'[s].events = Tail(streams[s].events)
            /\ Head(streams[s].events).kind = "error"
            /\ Head(streams[s].events).id \in DOMAIN client.pending_responses
            /\ ~client.pending_responses[Head(streams[s].events).id].done )
          => /\ Head(streams[s].events).id \in DOMAIN client'.pending_responses
             /\ client'.pending_responses[Head(streams[s].events).id].done]_vars

\* The positions of a task inside connect()
Connecting == {"connect_get", "connect_read", "connect_sleep", "connect_post"}

\* C15: concurrent connect() calls on one client collapse into one: a call
\* that starts while another task is inside connect() creates no HTTP session
\* (so opens no second stream and sends no second handshake) and closes and
\* replaces none of the sessions the other task is using.
C15_SingleConnect ==
    [][\A c, d \in Callers :
          ( /\ c # d
            /\ task[d].pc \in Connecting
            /\ task[c].pc = "idle" /\ task'[c].pc # "idle" )
          => /\ sessions' = sessions
             /\ closed' = closed
             /\ client'.sse_session = client.sse_session
             /\ client'.post_session = client.post_session]_vars

\* C16: connect() returns only after the response to initialize (id 0) has
\* been received from the stream, so no tools/call request is with the server
\* on a session whose handshake response has not been read yet.
C16_HandshakeFirst ==
    \A r \in inbox :
       \A i \in 1..Len(streams[r.stream].events) :
          streams[r.stream].events[i].id # 0

\* C17: once the event stream of a connected client has ended, or close() has
\* been called, the next call_tool connects anew before it sends its request:
\* no request is POSTed to the endpoint of a stream that is no longer open.
C17_NoPostToDeadSession ==
    \A r \in inbox : streams[r.stream].open

\* An event the listener has to drop: no response at all, a response whose id
\* has no pending entry, or a response to a request that was answered already.
Dropped(event) ==
    \/ event.kind \in JunkKinds
    \/ event.id \notin DOMAIN client.pending_responses
    \/ client.pending_responses[event.id].done

\* C18: an event that is not valid JSON, is JSON but no response, carries an
\* id with no pending entry or repeats a delivered response is dropped: the
\* listener that reads it changes no future and keeps running.
C18_JunkDropped ==
    [][\A s \in 1..Len(streams) :
          ( /\ streams[s].open /\ streams'[s].open
            /\ streams[s].events # << >>
            /\ streams'[s].events = Tail(streams[s].events)
            /\ Dropped(Head(streams[s].events)) )
          => /\ client'.pending_responses = client.pending_responses
             /\ listeners'[s] = listeners[s]]_vars

\* C19: on a client whose HTTP session is open and whose endpoint is known,
\* connect() returns at once, every time: the call_tool that called it goes
\* straight to its own message. No session is created or closed, no stream
\* opened, no handshake sent, no listener started; endpoint and session_id
\* stay, and message_id and pending_responses change only by that message.
C19_ConnectIdempotent ==
    [][\A c \in Callers :
          ( /\ task[c].pc = "idle" /\ task'[c] # task[c]
            /\ ops' = ops + 1
            /\ client.sse_session # 0 /\ client.sse_session \notin closed
            /\ client.endpoint # 0 )
          => /\ UNCHANGED <<sessions, closed, streams, listener_created, listeners>>
             /\ task'[c].pc = "post"
             /\ client' = [client EXCEPT
                    !.message_id = @ + 1,
                    !.pending_responses = (client.message_id + 1 :> Future) @@ @]]_vars

\* Two or more messages have gone out, all over the one session ever created
\* and its one stream: each call after the first found the client connected.
C19_Witness ==
    /\ sessions = 1 /\ closed = {} /\ Len(streams) = 1
    /\ Len(sent) >= 2
    /\ \A i \in 1..Len(sent) : sent[i].sess = 1
    /\ \E c \in Callers : task[c].pc = "post" /\ task[c].msg_id = Len(sent)

C26_FailedConnectDisconnects ==
    [][\A c \in Callers :
          (/\ task[c].pc \in Connecting
           /\ task'[c].pc = "idle"
           /\ task'[c].result.kind = "connect_error") =>
             /\ client'.endpoint = 0
             /\ client'.session_id = 0
             /\ client'.sse_session = 0
             /\ client'.post_session = 0
             /\ client'.sse_response = 0
             /\ \A g \in 1..sessions' : g \in closed'
             /\ ~Connected(client')]_vars

\* A connect() failed and closed the first session; a later call connected
\* through the second one and got its result.
C26_Witness ==
    \E c, d \in Callers :
       /\ task[c].pc = "idle" /\ task[c].result.kind = "connect_error"
       /\ task[d].pc = "idle" /\ task[d].result.kind = "ok"
       /\ sessions = 2
       /\ 1 \in closed
       /\ client.sse_session = 2
       /\ Connected(client)

C28_FailedPostLeavesNothing ==
    [][\A c \in Callers :
          /\ (task[c].pc = "post" /\ task'[c].pc # "post") =>
                \/ task'[c].pc = "wait"
                \/ /\ task'[c].pc = "idle"
                   /\ task'[c].result.kind = "transport_error"
                   /\ task'[c].result.id = task[c].msg_id
          /\ (task'[c].pc = "idle" /\ task'[c].result.kind = "transport_error") =>
                task'[c].result.id \notin DOMAIN client'.pending_responses]_vars

\* The POST failed, and the server's response to that request is on the
\* stream all the same.
C28_Witness ==
    \E c \in Callers :
       /\ task[c].pc = "idle"
       /\ task[c].result.kind = "transport_error"
       /\ task[c].result.id \notin DOMAIN client.pending_responses
       /\ \E s \in 1..Len(streams) : \E i \in 1..Len(streams[s].events) :
             /\ streams[s].events[i].id = task[c].result.id
             /\ streams[s].events[i].body = c

\* A _send_message with wait_response is in progress for c: its POST is
\* under way or it waits for its future.
InProgress(c) == task[c].pc \in {"post", "wait"}

\* C29: each key of pending_responses is the id of a _send_message call in
\* progress; when none is in progress, pending_responses is empty.
C29_PendingIsInProgress ==
    /\ \A m \in DOMAIN client.pending_responses :
          \E c \in Callers : InProgress(c) /\ task[c].msg_id = m
    /\ (\A c \in Callers : ~InProgress(c)) => DOMAIN client.pending_responses = {}

\* One call got its response and one timed out, both have removed their
\* entries, and nothing is pending.
C29_Witness ==
    \E c, d \in Callers :
       /\ task[c].pc = "idle" /\ task[c].result.kind = "ok"
       /\ task[d].pc = "idle" /\ task[d].result.kind = "timeout"
       /\ DOMAIN client.pending_responses = {}

\* No listener task is running or about to start.
NoListener ==
    /\ listener_created = 0
    /\ \A s \in DOMAIN listeners : listeners[s] = 0

\* C30: once the listener has exited while a caller waits for a future that
\* is not resolved, the caller ends with the timeout error of its own
\* request and its entry is gone; nobody waits forever.
C30_WaitersTimeOut ==
    \A c \in Callers : \A m \in 1..MaxOps :
       (/\ task[c].pc = "wait" /\ task[c].msg_id = m
        /\ ~client.pending_responses[m].done
        /\ NoListener)
       ~> (/\ task[c].pc = "idle"
           /\ task[c].result = Outcome("timeout", m, "none")
           /\ m \notin DOMAIN client.pending_responses)

\* The stream was dropped while a request was pending, the listener is gone,
\* and the caller has timed out and removed its entry.
C30_Witness ==
    \E c \in Callers :
       /\ faults = 1
       /\ NoListener
       /\ task[c].pc = "idle"
       /\ task[c].result.kind = "timeout"
       /\ DOMAIN client.pending_responses = {}

====
